---- MODULE Spec2Model ----
(***************************************************************************)
(* A model of bank-data's condenser package: the Sheet / MergeXL merge     *)
(* engine (merge.py), the condensation run (__main__.py) and the           *)
(* acquisition loop (download.py, common.py).                              *)
(*                                                                         *)
(* Strings that the code indexes or compares character by character        *)
(* (column labels) are modelled as sequences of one-character strings.     *)
(* A Python dict is modelled as a sequence of <<key, value>> pairs with    *)
(* distinct keys, in insertion order.                                      *)
(***************************************************************************)
EXTENDS Integers, Sequences, FiniteSets, TLC

\* ------------------------------------------------------------------ bounds
MaxTimestamps == 2      \* Timestamp objects a client constructs
MaxCols == 2            \* keys in one RowData dict
MaxFed == 3             \* add_source calls on one engine
MaxListing == 3         \* entries in the directory listing of a run
MaxRuns == 2            \* condensation runs over the same directory
CurrentYear == 2015     \* what datetime.datetime.now().year answers
MaxChunks == 1          \* chunks of 8192 bytes in one response body
MaxIndex == 14          \* month indexes a Month is constructed with: -MaxIndex..MaxIndex
MaxPrompts == 2         \* invalid answers given to the mode prompt of main

VARIABLES
    \* --- a Sheet driven through its methods (merge.py:39-50)
    sheet,          \* [columns |-> set of labels, rows |-> dict Timestamp -> RowData]
    timestamps,     \* the Timestamp objects constructed so far
    sheetExc,       \* what the last Sheet call raised ("none" when it returned)
    \* --- a MergeXL engine driven through its methods (merge.py:20-37)
    sheets,         \* self.sheets: dict sheet name -> Sheet
    fed,            \* the files add_source returned normally for, in call order
    output,         \* the workbook at the path given to write_to
    written,        \* TRUE once write_to has returned
    engineExc,      \* what the last MergeXL call raised
    \* --- condensation runs (__main__.py:55-60), driving the engine above
    listing,        \* os.listdir(data_dir): the files of the directory, in listing order
    run,            \* number of condense_existing calls started
    cpc,            \* where the current run is: "idle", "loop", "done", "raised"
    cidx,           \* position of the for loop in the listing
    results,        \* per finished run: the engine state, the output file, the exception
    now,            \* datetime.datetime.now(), read by the logging calls
    \* --- an acquisition run (download.py:36-72)
    dpc,            \* "idle", "month", "request", "write", "finished", "raised"
    dyear, dmonth,  \* the report the loops of download_new are at
    durl,           \* index of the candidate URL the for loop of download_if_possible is at
    fs,             \* the files of data_dir: [name, got (chunks written), len (chunks of the
                    \* body), by ("earlier": there before the run, "run": opened by it)]
    call,           \* the current / last download_if_possible call: report, requests issued,
                    \* what the answers were, and how it ended
    \* --- a MonthlyDataReport driven through its methods (common.py:41-92)
    the_month,      \* Month.month_index of the report's month
    the_year,       \* MonthlyDataReport.year
    ret,            \* the last method call: [op, exc ("none" when it returned), value]
    \* --- the interactive entry point (__main__.py:26-52)
    mpc,            \* where main is: "start", "exit", "raised", "prompt", "download_new",
                    \* "condense_existing", "finished", "op_raised"
    the_dir,        \* the local data_dir of main (None before it is assigned)
    existed,        \* the paths that existed when the program started
    exists,         \* the paths that exist now
    content,        \* per path: the names of the files in that directory
    prompts,        \* invalid answers given to the mode prompt so far
    called          \* the operation main called: [name, dir, listing (what the directory
                    \* held when the call started)]

sheetVars == <<sheet, timestamps, sheetExc>>
engineVars == <<sheets, fed, output, written, engineExc>>
condVars == <<listing, run, cpc, cidx, results, now>>
downVars == <<dpc, dyear, dmonth, durl, fs, call>>
reportVars == <<the_month, the_year, ret>>
mainVars == <<mpc, the_dir, existed, exists, content, prompts, called>>
vars == <<sheetVars, engineVars, condVars, downVars, reportVars, mainVars>>

\* ------------------------------------------------------------ dict helpers
Keys(d) == {d[i][1] : i \in 1..Len(d)}

KeySeq(d) == [i \in 1..Len(d) |-> d[i][1]]

HasKey(d, k) == \E i \in 1..Len(d) : d[i][1] = k

Get(d, k) == d[CHOOSE i \in 1..Len(d) : d[i][1] = k][2]

\* d[k] = v : an existing key keeps its position, a new key is appended
Put(d, k, v) ==
    IF HasKey(d, k)
    THEN [i \in 1..Len(d) |-> IF d[i][1] = k THEN <<k, v>> ELSE d[i]]
    ELSE Append(d, <<k, v>>)

\* ------------------------------------------------- values of the Sheet calls
\* Column labels: a one-character label, a two-character label.
Labels == {<<"A">>, <<"B", "C">>}

Values == {1, 2}

\* The dicts a RowData can carry: at most MaxCols distinct labels.
RowDatas ==
    {d \in UNION {[1..n -> Labels \X Values] : n \in 0..MaxCols} :
        \A i, j \in 1..Len(d) : i # j => d[i][1] # d[j][1]}

TsDays == {1}
TsMonths == {1}
TsYears == {2021, 2022}

\* ----------------------------------------------------------- merge.py: Sheet
\* Sheet.ensure_column
ensure_column(s, column) == [s EXCEPT !.columns = @ \cup {column}]

\* The loop of Sheet.add_row: `for (col, val) in row.data` iterates the KEYS of
\* the dict and unpacks each key into two items.  A key of two characters
\* unpacks into its characters (col is the first one); any other length raises
\* ValueError, after the columns of the earlier keys were already added.
RECURSIVE add_row_loop(_, _, _)
add_row_loop(s, data, i) ==
    IF i > Len(data) THEN [sheet |-> s, exc |-> "none"]
    ELSE LET key == data[i][1] IN
         IF Len(key) # 2 THEN [sheet |-> s, exc |-> "ValueError"]
         ELSE add_row_loop(ensure_column(s, <<key[1]>>), data, i + 1)

\* Sheet.add_row: the rows dict is keyed by the Timestamp object; Timestamp
\* defines neither __eq__ nor __hash__, so the key is the object's identity.
add_row(s, timestamp, row) ==
    LET r == add_row_loop(s, row, 1) IN
    IF r.exc # "none" THEN r
    ELSE [sheet |-> [r.sheet EXCEPT !.rows = Put(@, timestamp, row)], exc |-> "none"]

\* Timestamp(day, month, year): a new object each time
Timestamp(day, month, year) ==
    /\ Cardinality(timestamps) < MaxTimestamps
    /\ timestamps' = timestamps \cup
          {[id |-> Cardinality(timestamps) + 1, day |-> day, month |-> month, year |-> year]}
    /\ UNCHANGED <<sheet, sheetExc>>
    /\ UNCHANGED <<engineVars, condVars, downVars, reportVars, mainVars>>

\* a client's call of Sheet.ensure_column
EnsureColumn(column) ==
    /\ sheet' = ensure_column(sheet, column)
    /\ sheetExc' = "none"
    /\ UNCHANGED timestamps
    /\ UNCHANGED <<engineVars, condVars, downVars, reportVars, mainVars>>

\* a client's call of Sheet.add_row
AddRow(timestamp, row) ==
    LET r == add_row(sheet, timestamp, row) IN
    /\ sheet' = r.sheet
    /\ sheetExc' = r.exc
    /\ UNCHANGED timestamps
    /\ UNCHANGED <<engineVars, condVars, downVars, reportVars, mainVars>>

\* Sheet(set(), dict()), and no Timestamp constructed yet
SheetInit ==
    /\ sheet = [columns |-> {}, rows |-> <<>>]
    /\ timestamps = {}
    /\ sheetExc = "none"

NextSheet ==
    \/ \E d \in TsDays, m \in TsMonths, y \in TsYears : Timestamp(d, m, y)
    \/ \E c \in Labels : EnsureColumn(c)
    \/ \E t \in timestamps, row \in RowDatas : AddRow(t, row)

\* --------------------------------------------------- the source files on disk
\* A file of the data directory: its name, whether openpyxl can load it, and
\* (when it can) its tabs, each with the one row of column -> value it holds.
File(name, readable, tabs) == [name |-> name, readable |-> readable, tabs |-> tabs]

F_2021_1 == File("2021-1.xlsx", TRUE, << <<"Prices", << <<<<"A">>, 1>>, <<<<"B">>, 2>> >> >> >>)
F_2021_2 == File("2021-2.xlsx", TRUE, << <<"Prices", << <<<<"B">>, 3>>, <<<<"C">>, 4>> >> >> >>)
F_2021_3 == File("2021-3.xlsx", TRUE, << <<"Rates", << <<<<"X">>, 5>> >> >> >>)
F_summary == File("summary.xlsx", TRUE, << <<"Prices", << <<<<"A">>, 6>> >> >> >>)
F_notes == File("notes.txt", FALSE, <<>>)

Files == {F_2021_1, F_2021_2, F_2021_3, F_summary, F_notes}

TabNames == {"Prices", "Rates"}

\* --------------------------------------------------------- merge.py: MergeXL
None == [none |-> TRUE]

\* openpyxl.load_workbook(open(source_xl, 'rb')): raises on a file it cannot load
load_workbook(f) ==
    IF f.readable THEN [workbook |-> f.tabs, exc |-> "none"]
    ELSE [workbook |-> <<>>, exc |-> "InvalidFileException"]

\* MergeXL.add_source: loads the workbook into a local and returns; self.sheets
\* is not touched.
add_source(shs, f) ==
    LET workbook == load_workbook(f) IN
    [sheets |-> shs, exc |-> workbook.exc]

\* (mutant of write_to) saves a workbook that carries the time of the save
write_to_stamped(shs, out) ==
    [exists |-> TRUE,
     tabs |-> << [name |-> "Sheet", header |-> << <<"saved">> >>,
                  rows |-> << <<"merged.xlsx", << <<now>> >> >> >>] >>]

\* MergeXL.write_to: `pass`; nothing is written to the output path.
write_to(shs, out) == out

\* MergeXL.get_or_create_sheet: self.sheets[name] raises KeyError for a name
\* that is not a key.
get_or_create_sheet(shs, name) ==
    IF ~HasKey(shs, name)
    THEN [sheets |-> shs, exc |-> "KeyError", result |-> None]
    ELSE LET existing == Get(shs, name) IN
         IF existing # None
         THEN [sheets |-> shs, exc |-> "none", result |-> existing]
         ELSE LET new == [columns |-> {}, rows |-> <<>>] IN
              [sheets |-> Put(shs, name, new), exc |-> "none", result |-> new]

\* MergeXL(): self.sheets = dict()
EngineInit ==
    /\ sheets = <<>>
    /\ fed = <<>>
    /\ output = [exists |-> FALSE, tabs |-> <<>>]
    /\ written = FALSE
    /\ engineExc = "none"

\* a client's call of MergeXL.add_source
AddSource(f) ==
    LET r == add_source(sheets, f) IN
    /\ Len(fed) < MaxFed
    /\ sheets' = r.sheets
    /\ engineExc' = r.exc
    /\ fed' = IF r.exc = "none" THEN Append(fed, f) ELSE fed
    /\ UNCHANGED <<output, written>>
    /\ UNCHANGED <<sheetVars, condVars, downVars, reportVars, mainVars>>

\* a client's call of MergeXL.write_to
WriteTo ==
    /\ output' = write_to(sheets, output)
    /\ written' = TRUE
    /\ engineExc' = "none"
    /\ UNCHANGED <<sheets, fed>>
    /\ UNCHANGED <<sheetVars, condVars, downVars, reportVars, mainVars>>

\* a client's call of MergeXL.get_or_create_sheet
GetOrCreateSheet(name) ==
    LET r == get_or_create_sheet(sheets, name) IN
    /\ sheets' = r.sheets
    /\ engineExc' = r.exc
    /\ UNCHANGED <<fed, output, written>>
    /\ UNCHANGED <<sheetVars, condVars, downVars, reportVars, mainVars>>

NextEngine ==
    \/ \E f \in Files : AddSource(f)
    \/ WriteTo
    \/ \E name \in TabNames : GetOrCreateSheet(name)

\* ------------------------------------------------ __main__.py: condense_existing
\* The directory listings: sequences of distinct files.
Listings ==
    {l \in UNION {[1..n -> Files] : n \in 0..MaxListing} :
        \A i, j \in 1..Len(l) : i # j => l[i] # l[j]}

CondIdle ==
    /\ run = 0
    /\ cpc = "idle"
    /\ cidx = 1
    /\ results = <<>>
    /\ now = 0

\* condense_existing, lines 55-57: info(...) reads the clock, MergeXL() makes a
\* fresh engine.  The file merged.xlsx of an earlier run stays on disk.
condense_existing ==
    /\ cpc \in {"idle", "done", "raised"}
    /\ run < MaxRuns
    /\ run' = run + 1
    /\ sheets' = <<>>
    /\ fed' = <<>>
    /\ written' = FALSE
    /\ engineExc' = "none"
    /\ cidx' = 1
    /\ cpc' = "loop"
    /\ now' = now + 1
    /\ UNCHANGED <<output, listing, results>>
    /\ UNCHANGED <<sheetVars, downVars, reportVars, mainVars>>

\* condense_existing, lines 58-59: one iteration of the for loop.  There is no
\* try/except: what add_source raises leaves condense_existing.
condense_add_source ==
    /\ cpc = "loop"
    /\ cidx <= Len(listing)
    /\ LET r == add_source(sheets, listing[cidx]) IN
        /\ sheets' = r.sheets
        /\ engineExc' = r.exc
        /\ IF r.exc = "none"
           THEN /\ fed' = Append(fed, listing[cidx])
                /\ cidx' = cidx + 1
                /\ cpc' = "loop"
                /\ results' = results
           ELSE /\ fed' = fed
                /\ cidx' = cidx
                /\ cpc' = "raised"
                /\ results' = Append(results,
                       [sheets |-> r.sheets, output |-> output, exc |-> r.exc])
    /\ now' = now + 1
    /\ UNCHANGED <<output, written, listing, run>>
    /\ UNCHANGED <<sheetVars, downVars, reportVars, mainVars>>

\* condense_existing, line 60: mergexl.write_to("merged.xlsx") after the loop
condense_write_to ==
    /\ cpc = "loop"
    /\ cidx > Len(listing)
    /\ output' = write_to(sheets, output)
    /\ written' = TRUE
    /\ cpc' = "done"
    /\ results' = Append(results,
           [sheets |-> sheets, output |-> output', exc |-> "none"])
    /\ now' = now + 1
    /\ UNCHANGED <<sheets, fed, engineExc, listing, run, cidx>>
    /\ UNCHANGED <<sheetVars, downVars, reportVars, mainVars>>

NextCondense ==
    \/ condense_existing
    \/ condense_add_source
    \/ condense_write_to

\* --------------------------------------------------------------- common.py
\* seq[i] of a Python list (0-based): a negative i counts from the end, an i
\* outside -len..len-1 raises IndexError
PyIndexOk(seq, i) == 0 - Len(seq) <= i /\ i < Len(seq)

PyIndex(seq, i) == IF i >= 0 THEN seq[i + 1] ELSE seq[Len(seq) + i + 1]

\* arr of Month.short_name
ShortNames ==
    <<"jan", "feb", "mar", "apr", "may", "jun",
      "jul", "aug", "sep", "oct", "nov", "dec">>

\* calendar.month_name: thirteen entries, the first one empty
MonthNames ==
    <<"", "January", "February", "March", "April", "May", "June", "July",
      "August", "September", "October", "November", "December">>

\* Month.short_name (month_index is 0-based)
short_name(month_index) == PyIndex(ShortNames, month_index)

\* (mutant of numerical) the index is returned as it is, zero-based
numerical_zero_based(month_index) == month_index

\* Month.numerical
numerical(month_index) == month_index + 1

\* Month.__str__: calendar.month_name[1 + month_index]
month_name(month_index) == PyIndex(MonthNames, 1 + month_index)

\* str(month).lower()
lower_month(month_index) ==
    PyIndex(<<"", "january", "february", "march", "april", "may", "june", "july",
              "august", "september", "october", "november", "december">>,
            1 + month_index)

\* short_month[0].upper() + short_month[1:]
capital_short_name(month_index) ==
    PyIndex(<<"Jan", "Feb", "Mar", "Apr", "May", "Jun",
              "Jul", "Aug", "Sep", "Oct", "Nov", "Dec">>, month_index)

\* Month.all_months: range(12)
all_months == 0..11

\* str(n) of a natural number, as its characters
RECURSIVE Digits(_)
Digits(n) ==
    LET d == <<"0", "1", "2", "3", "4", "5", "6", "7", "8", "9">>[(n % 10) + 1] IN
    IF n < 10 THEN <<d>> ELSE Append(Digits(n \div 10), d)

\* str(n) of an integer
py_str(n) == IF n < 0 THEN <<"-">> \o Digits(0 - n) ELSE Digits(n)

\* str(self.year)[2:]
short_year(year) == SubSeq(Digits(year), 3, Len(Digits(year)))

\* MonthlyDataReport.locate_excel_file: f"{data_dir}/{year}-{numerical}.xlsx",
\* as its characters after the directory name
locate_excel_file(data_dir, year, month) ==
    <<data_dir, "/">> \o py_str(year) \o <<"-">> \o py_str(numerical(month)) \o <<".xlsx">>

\* MonthlyDataReport.locate_possible_urls: each URL as
\* <<text before the month, month text, year text, text after the year>>
locate_possible_urls(year, month) ==
    << <<"econtrds/et", short_name(month), short_year(year), ".xlsx">>,
       <<"econtrds/econtrends_", month_name(month), Digits(year), ".xlsx">>,
       <<"econtrds/econtrends_", lower_month(month), Digits(year), ".xlsx">>,
       <<"econtrds/ET", capital_short_name(month), short_year(year), ".xlsx">>,
       <<"econtrds/econtrends_", short_name(month), Digits(year), ".xlsx">>,
       <<"econtrds/", short_name(month), short_year(year), "/statisticaltable.xlsx">>,
       <<"econtrds/", short_name(month), short_year(year), "/statisticaltable.xls">>,
       <<"econtrds/", lower_month(month), short_year(year), "/statisticaltable.xlsx">> >>

\* (mutant of has_no_data) the year is not looked at
has_no_data_any_year(year, month) == short_name(month) = "nov"

\* MonthlyDataReport.has_no_data
has_no_data(year, month) == <<short_name(month), year>> \in {<<"nov", 2015>>}

\* range(2012, ...) of Download.download_new
FirstYear == 2012

\* Download.data_dir
DataDir == "data"

\* ------------------------------------- common.py: a report and its methods
MonthIndexes == (0 - MaxIndex)..MaxIndex

ReportYears == FirstYear..(CurrentYear + 1)

Returned(op, value) == [op |-> op, exc |-> "none", value |-> <<value>>]

Raised(op, exc) == [op |-> op, exc |-> exc, value |-> <<>>]

\* MonthlyDataReport(2012, Month(0)), no method called yet
ReportInit ==
    /\ the_month = 0
    /\ the_year = FirstYear
    /\ ret = Raised("none", "none")

\* MonthlyDataReport(year, Month(month_index)): both constructors store their
\* arguments and test nothing
MonthlyDataReport(year, month_index) ==
    /\ the_year' = year
    /\ the_month' = month_index
    /\ ret' = Returned("Month", month_index)
    /\ UNCHANGED <<sheetVars, engineVars, condVars, downVars, mainVars>>

\* a call of Month.short_name
call_short_name ==
    /\ ret' = IF PyIndexOk(ShortNames, the_month)
              THEN Returned("short_name", short_name(the_month))
              ELSE Raised("short_name", "IndexError")
    /\ UNCHANGED <<the_month, the_year>>
    /\ UNCHANGED <<sheetVars, engineVars, condVars, downVars, mainVars>>

\* a call of Month.numerical
call_numerical ==
    /\ ret' = Returned("numerical", numerical(the_month))
    /\ UNCHANGED <<the_month, the_year>>
    /\ UNCHANGED <<sheetVars, engineVars, condVars, downVars, mainVars>>

\* a call of Month.__str__
call_str ==
    /\ ret' = IF PyIndexOk(MonthNames, 1 + the_month)
              THEN Returned("str", month_name(the_month))
              ELSE Raised("str", "IndexError")
    /\ UNCHANGED <<the_month, the_year>>
    /\ UNCHANGED <<sheetVars, engineVars, condVars, downVars, mainVars>>

\* a call of MonthlyDataReport.locate_excel_file(data_dir)
call_locate_excel_file ==
    /\ ret' = Returned("locate_excel_file", locate_excel_file(DataDir, the_year, the_month))
    /\ UNCHANGED <<the_month, the_year>>
    /\ UNCHANGED <<sheetVars, engineVars, condVars, downVars, mainVars>>

\* a call of MonthlyDataReport.has_no_data (it calls short_name)
call_has_no_data ==
    /\ ret' = IF PyIndexOk(ShortNames, the_month)
              THEN Returned("has_no_data", has_no_data(the_year, the_month))
              ELSE Raised("has_no_data", "IndexError")
    /\ UNCHANGED <<the_month, the_year>>
    /\ UNCHANGED <<sheetVars, engineVars, condVars, downVars, mainVars>>

NextReport ==
    \/ \E y \in ReportYears, i \in MonthIndexes : MonthlyDataReport(y, i)
    \/ call_short_name
    \/ call_numerical
    \/ call_str
    \/ call_locate_excel_file
    \/ call_has_no_data

\* ------------------------------------------------------------- download.py

\* a URL that is no candidate of any report (where the bank's site redirects to)
OutsideUrl == <<"", "", <<>>, "">>

\* What requests.get can come back with for the candidate urls[i]: a connection
\* fault (it raises), or a response with a status, a final URL after redirects
\* (the URL asked for, the next candidate of the list, or a URL outside the
\* list) and a body of some chunks (the body of an error page is never read).
Responses(urls, i) ==
    LET finals == {urls[i], urls[(i % Len(urls)) + 1], OutsideUrl} IN
    {[fault |-> TRUE, status |-> 0, url |-> OutsideUrl, len |-> 0]}
    \cup [fault : {FALSE}, status : {404, 500}, url : finals, len : {1}]
    \cup [fault : {FALSE}, status : {200}, url : finals, len : 1..MaxChunks]

\* The reports the bank's site can answer with a spreadsheet; for every other
\* report each candidate answers 404 or an error, redirects outside, or the
\* connection fails.  (May: two pairs of its candidate URLs coincide;
\* December 2015 follows the month without data.)
Published == {<<2012, 0>>, <<2012, 4>>, <<2015, 11>>}

\* (mutant of isfile) the test always fails
isfile_never(filename) == FALSE

\* path.isfile(filename)
isfile(filename) == \E f \in fs : f.name = filename

InSeq(x, seq) == \E j \in 1..Len(seq) : seq[j] = x

\* (mutant of treat) the 404 test is missing: raise_for_status sees the 404
treat_404_raises(resp, urls) ==
    IF resp.fault THEN "raise"
    ELSE IF resp.status >= 400 THEN "raise"
    ELSE IF ~InSeq(resp.url, urls) THEN "continue"
    ELSE "download"

\* (mutant of treat) the test of the final URL is missing
treat_redirect_accepted(resp, urls) ==
    IF resp.fault THEN "raise"
    ELSE IF resp.status = 404 THEN "continue"
    ELSE IF resp.status >= 400 THEN "raise"
    ELSE "download"

\* (mutant of treat) raise_for_status is missing: an error page is saved
treat_error_accepted(resp, urls) ==
    IF resp.fault THEN "raise"
    ELSE IF resp.status = 404 THEN "continue"
    ELSE IF ~InSeq(resp.url, urls) THEN "continue"
    ELSE "download"

\* How download_if_possible treats one answer (lines 56-67):
\* "raise" (requests.get or raise_for_status raises), "continue" (404 or a
\* final URL outside the candidates), or "download".
treat(resp, urls) ==
    IF resp.fault THEN "raise"
    ELSE IF resp.status = 404 THEN "continue"
    ELSE IF resp.status >= 400 THEN "raise"
    ELSE IF ~InSeq(resp.url, urls) THEN "continue"
    ELSE "download"

\* the kind of an answer, as the claims speak of it
Kind(resp, urls) ==
    IF resp.fault THEN "fault"
    ELSE IF resp.status = 404 THEN "404"
    ELSE IF resp.status >= 400 /\ ~InSeq(resp.url, urls) THEN "error_outside"
    ELSE IF resp.status >= 400 THEN "error"
    ELSE IF ~InSeq(resp.url, urls) THEN "outside"
    ELSE "ok"

NoCall ==
    [year |-> 0, month |-> 0, requested |-> <<>>, all404 |-> TRUE,
     answer |-> "none", body |-> 0, ret |-> "none"]

DownIdle ==
    /\ dpc = "idle"
    /\ dyear = FirstYear
    /\ dmonth = 0
    /\ durl = 1
    /\ call = NoCall

\* the next iteration of `for year ... for month ...`
NextMonth ==
    /\ dmonth' = IF dmonth = 11 THEN 0 ELSE dmonth + 1
    /\ dyear' = IF dmonth = 11 THEN dyear + 1 ELSE dyear

\* Download.download_new is called: the loops start at January 2012
download_new ==
    /\ dpc = "idle"
    /\ dpc' = "month"
    /\ UNCHANGED <<dyear, dmonth, durl, fs, call>>
    /\ UNCHANGED <<sheetVars, engineVars, condVars, reportVars, mainVars>>

\* range(2012, current_year() + 1) is exhausted: download_new returns
download_new_return ==
    /\ dpc = "month"
    /\ dyear > CurrentYear
    /\ dpc' = "finished"
    /\ UNCHANGED <<dyear, dmonth, durl, fs, call>>
    /\ UNCHANGED <<sheetVars, engineVars, condVars, reportVars, mainVars>>

\* lines 40-42: a report with no data is passed over
download_new_no_data ==
    /\ dpc = "month"
    /\ dyear <= CurrentYear
    /\ has_no_data(dyear, dmonth)
    /\ NextMonth
    /\ UNCHANGED <<dpc, durl, fs, call>>
    /\ UNCHANGED <<sheetVars, engineVars, condVars, reportVars, mainVars>>

\* download_if_possible, lines 48-51: the file is there, return True
download_if_possible_exists ==
    /\ dpc = "month"
    /\ dyear <= CurrentYear
    /\ ~has_no_data(dyear, dmonth)
    /\ isfile(locate_excel_file(DataDir, dyear, dmonth))
    /\ call' = [NoCall EXCEPT !.year = dyear, !.month = dmonth, !.ret = "True"]
    /\ NextMonth
    /\ UNCHANGED <<dpc, durl, fs>>
    /\ UNCHANGED <<sheetVars, engineVars, condVars, reportVars, mainVars>>

\* download_if_possible, lines 48-53: no file, the for loop over the URLs starts
download_if_possible ==
    /\ dpc = "month"
    /\ dyear <= CurrentYear
    /\ ~has_no_data(dyear, dmonth)
    /\ ~isfile(locate_excel_file(DataDir, dyear, dmonth))
    /\ call' = [NoCall EXCEPT !.year = dyear, !.month = dmonth, !.ret = "running"]
    /\ durl' = 1
    /\ dpc' = "request"
    /\ UNCHANGED <<dyear, dmonth, fs>>
    /\ UNCHANGED <<sheetVars, engineVars, condVars, reportVars, mainVars>>

\* download_if_possible, lines 53-68: requests.get(urls[durl]) and what follows
\* from the answer, up to the open() of the local file; a `continue` on the
\* last URL ends the loop and the call returns False (line 72).
request(resp) ==
    LET urls == locate_possible_urls(dyear, dmonth)
        t == treat(resp, urls)
        seen == [call EXCEPT !.requested = Append(@, durl),
                             !.all404 = @ /\ Kind(resp, urls) = "404",
                             !.answer = Kind(resp, urls)]
    IN
    /\ dpc = "request"
    /\ t = "download" => <<dyear, dmonth>> \in Published
    /\ CASE t = "raise" ->
              /\ dpc' = "raised"
              /\ call' = [seen EXCEPT !.ret = "raised"]
              /\ UNCHANGED <<dyear, dmonth, durl, fs>>
         [] t = "continue" /\ durl < Len(urls) ->
              /\ durl' = durl + 1
              /\ call' = seen
              /\ UNCHANGED <<dpc, dyear, dmonth, fs>>
         [] t = "continue" /\ durl = Len(urls) ->
              /\ dpc' = "month"
              /\ call' = [seen EXCEPT !.ret = "False"]
              /\ NextMonth
              /\ UNCHANGED <<durl, fs>>
         [] t = "download" ->
              /\ dpc' = "write"
              /\ call' = [seen EXCEPT !.body = resp.len]
              /\ fs' = {f \in fs : f.name # locate_excel_file(DataDir, dyear, dmonth)}
                         \cup {[name |-> locate_excel_file(DataDir, dyear, dmonth),
                                got |-> 0, len |-> resp.len, by |-> "run"]}
              /\ UNCHANGED <<dyear, dmonth, durl>>
    /\ UNCHANGED <<sheetVars, engineVars, condVars, reportVars, mainVars>>

\* the file being written by the call in progress
Current == CHOOSE f \in fs : f.name = locate_excel_file(DataDir, dyear, dmonth)

\* lines 69-70: one chunk of the body is written
write_chunk ==
    /\ dpc = "write"
    /\ Current.got < Current.len
    /\ fs' = (fs \ {Current}) \cup {[Current EXCEPT !.got = @ + 1]}
    /\ UNCHANGED <<dpc, dyear, dmonth, durl, call>>
    /\ UNCHANGED <<sheetVars, engineVars, condVars, reportVars, mainVars>>

\* lines 69-70: iter_content or file.write raises (network or I/O fault); the
\* with blocks close the file and the response, nothing removes the file
write_fault ==
    /\ dpc = "write"
    /\ Current.got < Current.len
    /\ dpc' = "raised"
    /\ call' = [call EXCEPT !.ret = "raised", !.answer = "fault"]
    /\ UNCHANGED <<dyear, dmonth, durl, fs>>
    /\ UNCHANGED <<sheetVars, engineVars, condVars, reportVars, mainVars>>

\* line 71: the body is exhausted, return True
write_return ==
    /\ dpc = "write"
    /\ Current.got = Current.len
    /\ dpc' = "month"
    /\ call' = [call EXCEPT !.ret = "True"]
    /\ NextMonth
    /\ UNCHANGED <<durl, fs>>
    /\ UNCHANGED <<sheetVars, engineVars, condVars, reportVars, mainVars>>

NextDownload ==
    \/ download_new
    \/ download_new_return
    \/ download_new_no_data
    \/ download_if_possible_exists
    \/ download_if_possible
    \/ \E resp \in Responses(locate_possible_urls(dyear, dmonth), durl) : request(resp)
    \/ write_chunk
    \/ write_fault
    \/ write_return

\* ------------------------------------------------- __main__.py: main
\* What the user may type at the directory prompt, as strings of characters:
\* nothing, one character, and two longer paths.
DirInputs == {<<>>, <<"x">>, <<"d", "a", "t", "a">>, <<"o", "u", "t">>}

\* the paths main can be made to use
Dirs == {<<"d", "a", "t", "a">>, <<"o", "u", "t">>}

\* the file names a directory may hold
FileNames == {"2012-1.xlsx", "2015-12.xlsx"}

\* what the user may type at the mode prompt
Options == {"1", "2", "3"}

NoOp == [name |-> "none", dir |-> None, listing |-> {}]

\* (mutant of makedirs) os.makedirs(name, exist_ok=True)
makedirs_exist_ok(ex, name) == [exc |-> "none", exists |-> ex \cup {name}]

\* os.makedirs(name), line 36: FileExistsError when the path exists
makedirs(ex, name) ==
    IF name \in ex
    THEN [exc |-> "FileExistsError", exists |-> ex]
    ELSE [exc |-> "none", exists |-> ex \cup {name}]

\* the state when the program starts: some of the paths exist, and an existing
\* directory may hold files
MainInit ==
    /\ mpc = "start"
    /\ the_dir = None
    /\ existed \in SUBSET Dirs
    /\ exists = existed
    /\ content \in [Dirs -> {{}, {"2012-1.xlsx"}}]
    /\ \A d \in Dirs : d \notin existed => content[d] = {}
    /\ prompts = 0
    /\ called = NoOp

\* the state of main in the specifications that do not run it
MainIdle ==
    /\ mpc = "start"
    /\ the_dir = None
    /\ existed = {}
    /\ exists = {}
    /\ content = [d \in Dirs |-> {}]
    /\ prompts = 0
    /\ called = NoOp

\* main, lines 27-36: the directory prompt, the default, the one-character
\* test and os.makedirs
main(answer) ==
    /\ mpc = "start"
    /\ IF answer = <<>>
       THEN LET made == makedirs(exists, <<"d", "a", "t", "a">>) IN
            /\ the_dir' = <<"d", "a", "t", "a">>
            /\ exists' = made.exists
            /\ mpc' = IF made.exc = "none" THEN "prompt" ELSE "raised"
       ELSE IF Len(answer) = 1
       THEN /\ mpc' = "exit"
            /\ the_dir' = answer
            /\ exists' = exists
       ELSE LET made == makedirs(exists, answer) IN
            /\ the_dir' = answer
            /\ exists' = made.exists
            /\ mpc' = IF made.exc = "none" THEN "prompt" ELSE "raised"
    /\ UNCHANGED <<existed, content, prompts, called>>
    /\ UNCHANGED <<sheetVars, engineVars, condVars, downVars, reportVars>>

\* main, lines 38-49: one answer to the mode prompt; an invalid one asks again
main_option(option) ==
    /\ mpc = "prompt"
    /\ IF option = "1"
       THEN /\ mpc' = "download_new"
            /\ called' = [name |-> "download_new", dir |-> the_dir,
                      listing |-> content[the_dir]]
            /\ prompts' = prompts
       ELSE IF option = "2"
       THEN /\ mpc' = "condense_existing"
            /\ called' = [name |-> "condense_existing", dir |-> the_dir,
                      listing |-> content[the_dir]]
            /\ prompts' = prompts
       ELSE /\ prompts < MaxPrompts
            /\ prompts' = prompts + 1
            /\ mpc' = "prompt"
            /\ called' = called
    /\ UNCHANGED <<the_dir, existed, exists, content>>
    /\ UNCHANGED <<sheetVars, engineVars, condVars, downVars, reportVars>>

\* main, lines 44 and 51-52: download_new(data_dir) ran to its end, writing
\* some files into the directory, and main finishes
main_download_new_returns(got) ==
    /\ mpc = "download_new"
    /\ content' = [content EXCEPT ![called.dir] = @ \cup got]
    /\ mpc' = "finished"
    /\ UNCHANGED <<the_dir, existed, exists, prompts, called>>
    /\ UNCHANGED <<sheetVars, engineVars, condVars, downVars, reportVars>>

\* main, line 44: download_new(data_dir) raised (an error status, a failed
\* write) after writing some files; nothing in main catches it
main_download_new_raises(got) ==
    /\ mpc = "download_new"
    /\ content' = [content EXCEPT ![called.dir] = @ \cup got]
    /\ mpc' = "op_raised"
    /\ UNCHANGED <<the_dir, existed, exists, prompts, called>>
    /\ UNCHANGED <<sheetVars, engineVars, condVars, downVars, reportVars>>

\* main, lines 46 and 51-52: condense_existing(data_dir) ended: it returns when
\* add_source raised for no file of the listing, which an empty listing
\* guarantees; merged.xlsx is written outside data_dir
main_condense_existing_ends(raised) ==
    /\ mpc = "condense_existing"
    /\ raised => called.listing # {}
    /\ mpc' = IF raised THEN "op_raised" ELSE "finished"
    /\ UNCHANGED <<the_dir, existed, exists, content, prompts, called>>
    /\ UNCHANGED <<sheetVars, engineVars, condVars, downVars, reportVars>>

NextMain ==
    \/ \E answer \in DirInputs : main(answer)
    \/ \E option \in Options : main_option(option)
    \/ \E got \in SUBSET FileNames : main_download_new_returns(got)
    \/ \E got \in SUBSET FileNames : main_download_new_raises(got)
    \/ \E raised \in BOOLEAN : main_condense_existing_ends(raised)

\* the files that may be in data_dir before the run: a complete file of the
\* first month
PreFiles ==
    {[name |-> locate_excel_file(DataDir, FirstYear, 0), got |-> 1, len |-> 1, by |-> "earlier"]}

\* ----------------------------------------------------------- specifications
Init ==
    /\ SheetInit /\ EngineInit /\ CondIdle /\ listing = <<>> /\ DownIdle /\ fs = {} /\ ReportInit
    /\ MainIdle

InitCondense ==
    /\ SheetInit /\ EngineInit /\ CondIdle /\ listing \in Listings /\ DownIdle /\ fs = {}
    /\ ReportInit /\ MainIdle

InitDownload ==
    /\ SheetInit /\ EngineInit /\ CondIdle /\ listing = <<>> /\ DownIdle
    /\ fs \in SUBSET PreFiles
    /\ ReportInit /\ MainIdle

InitMain ==
    /\ SheetInit /\ EngineInit /\ CondIdle /\ listing = <<>> /\ DownIdle /\ fs = {} /\ ReportInit
    /\ MainInit

SpecSheet == Init /\ [][NextSheet]_vars

SpecEngine == Init /\ [][NextEngine]_vars

SpecCondense == InitCondense /\ [][NextCondense]_vars

SpecDownload == InitDownload /\ [][NextDownload]_vars

SpecReport == Init /\ [][NextReport]_vars

SpecMain == InitMain /\ [][NextMain]_vars

\* =================================================================== claims
\* ---- helpers of the claims about the merge engine
\* the column labels of tab T of file f
LabelsOfTab(f, T) ==
    UNION {Keys(f.tabs[i][2]) : i \in {j \in 1..Len(f.tabs) : f.tabs[j][1] = T}}

HasTab(f, T) == \E i \in 1..Len(f.tabs) : f.tabs[i][1] = T

\* the column labels seen in tab T of the files fed so far
SeenLabels(srcs, T) == UNION {LabelsOfTab(srcs[i], T) : i \in 1..Len(srcs)}

\* the tab names of the files srcs, in order of first encounter
RECURSIVE FirstEncounter(_, _, _, _)
FirstEncounter(srcs, i, j, acc) ==
    IF i > Len(srcs) THEN acc
    ELSE IF j > Len(srcs[i].tabs) THEN FirstEncounter(srcs, i + 1, 1, acc)
    ELSE LET T == srcs[i].tabs[j][1] IN
         FirstEncounter(srcs, i, j + 1,
                        IF \E k \in 1..Len(acc) : acc[k] = T THEN acc ELSE Append(acc, T))

\* An output workbook: tabs is a sequence of
\* [name, header (sequence of labels), rows (dict file name -> cells)],
\* a cell being Blank or <<value>>.
Blank == <<>>

Occurrences(seq, x) == Cardinality({i \in 1..Len(seq) : seq[i] = x})

\* C1: after any sequence of add_source calls, for every tab name T that
\* occurs in the files fed so far, the engine holds a sheet T whose column set
\* is the union of the column labels of tab T of those files.
C1_ColumnSetIsUnion ==
    \A T \in TabNames :
        (\E i \in 1..Len(fed) : HasTab(fed[i], T)) =>
            /\ HasKey(sheets, T)
            /\ Get(sheets, T).columns = SeenLabels(fed, T)

\* C2: a sheet never holds two rows whose Timestamps have equal
\* (day, month, year): a second add_row under an equal Timestamp replaces
\* the first row instead of adding one.
SameDate(t, u) == t.day = u.day /\ t.month = u.month /\ t.year = u.year

C2_OneRowPerDate ==
    \A i, j \in 1..Len(sheet.rows) :
        SameDate(sheet.rows[i][1], sheet.rows[j][1]) => i = j

\* C8: once write_to has returned, the tabs of the output workbook are
\* exactly the sheet names of the engine's mapping, and they are in the order
\* in which the tab names were first encountered across the add_source calls.
C8_OneTabPerSheetInOrder ==
    written =>
        /\ [i \in 1..Len(output.tabs) |-> output.tabs[i].name] = KeySeq(sheets)
        /\ KeySeq(sheets) = FirstEncounter(fed, 1, 1, <<>>)

\* C9: once write_to has returned, a column label that occurs in tab T of
\* exactly one of the files fed appears exactly once in the header of output
\* tab T, and the row of every other file with a tab T is blank in that column.
C9_LoneColumnOnceAndBlank ==
    written =>
        \A T \in TabNames :
            \A L \in SeenLabels(fed, T) :
                Cardinality({i \in 1..Len(fed) : L \in LabelsOfTab(fed[i], T)}) = 1 =>
                    /\ output.exists
                    /\ \E k \in 1..Len(output.tabs) :
                        LET tab == output.tabs[k] IN
                        /\ tab.name = T
                        /\ Occurrences(tab.header, L) = 1
                        /\ \A i \in 1..Len(fed) :
                            (HasTab(fed[i], T) /\ L \notin LabelsOfTab(fed[i], T)) =>
                                /\ HasKey(tab.rows, fed[i].name)
                                /\ \A c \in 1..Len(tab.header) :
                                    tab.header[c] = L =>
                                        Get(tab.rows, fed[i].name)[c] = Blank

\* C7: a condensation run is never aborted by the error of one file: a file
\* add_source cannot read is skipped and the run goes on to write_to.
C7_RunSurvivesBadFile == cpc # "raised"

\* C10: condensation runs over the same directory listing end with the same
\* engine state, the same output workbook and the same outcome.
C10_Deterministic ==
    \A i, j \in 1..Len(results) : results[i] = results[j]

\* two runs over a listing of at least two files have finished, without error
C10_Witness ==
    /\ Len(results) >= 2
    /\ Len(listing) >= 2
    /\ results[2].exc = "none"

\* ---- helpers of the claims about acquisition
Pos(year, month) == 12 * year + month

CallFile == locate_excel_file(DataDir, call.year, call.month)

\* the for loop stands at the candidate right after the one last asked
AtNextCandidate == dpc = "request" => durl = Len(call.requested) + 1

\* C3: a 404 is never fatal and the next candidate is tried; when all eight
\* candidates answer 404 the call returns False, no local file exists, and
\* download_new stands at a later month (or has returned).
C3_NotFoundNotFatal ==
    /\ call.answer = "404" =>
        /\ call.ret # "raised"
        /\ dpc # "write"
        /\ AtNextCandidate
    /\ (call.all404 /\ Len(call.requested) = 8) =>
        /\ call.ret = "False"
        /\ ~isfile(CallFile)
        /\ dpc \in {"month", "finished"}
        /\ Pos(dyear, dmonth) > Pos(call.year, call.month)

\* all eight candidates of a report answered 404 and the run is at the next month
C3_Witness ==
    /\ call.all404
    /\ Len(call.requested) = 8
    /\ call.ret = "False"
    /\ dpc = "month"
    /\ dyear <= CurrentYear

\* C4 as stated: every response whose final URL is not a candidate, whatever
\* its status, is handled like a 404: not fatal, nothing written, next
\* candidate tried.
C4_AnyOutsideLikeNotFound ==
    call.answer \in {"outside", "error_outside"} =>
        /\ call.ret \notin {"raised", "True"}
        /\ dpc # "write"
        /\ ~isfile(CallFile)
        /\ AtNextCandidate

\* C4 amended: a response that passes raise_for_status and whose final URL is
\* not a candidate is handled like a 404: not fatal, no local file, the call
\* does not return True on it, and the next candidate is tried (False after
\* the last one).
C4_RedirectLikeNotFound ==
    call.answer = "outside" =>
        /\ call.ret \notin {"raised", "True"}
        /\ dpc # "write"
        /\ ~isfile(CallFile)
        /\ AtNextCandidate
        /\ Len(call.requested) = 8 => call.ret = "False"

\* a redirect outside the candidates was answered and the next candidate is up
C4_Witness ==
    /\ call.answer = "outside"
    /\ dpc = "request"
    /\ durl = 2

InOrder(requested) == requested = [i \in 1..Len(requested) |-> i]

\* C5 as stated: the candidates are asked in order, and the first response
\* that is neither a 404 nor redirected outside (so also one with another
\* error status) is written to the local file and the call returns True.
C5_FirstNon404Wins ==
    /\ InOrder(call.requested)
    /\ call.answer \in {"ok", "error"} => (dpc = "write" \/ call.ret = "True")

\* C5 amended: the candidates are asked in order; the first response that is
\* neither a 404, nor another error status, nor redirected outside is the one
\* written to the local file, no later candidate is asked, and the call
\* returns True once the whole body is written.
C5_FirstGoodWins ==
    /\ InOrder(call.requested)
    /\ dpc = "write" => call.answer = "ok" /\ call.ret = "running"
    /\ call.answer = "ok" =>
        /\ dpc = "write" \/ call.ret = "True"
        /\ durl = Len(call.requested)
        /\ \E f \in fs : f.name = CallFile /\ f.len = call.body
    /\ (call.ret = "True" /\ call.requested # <<>>) =>
        /\ call.answer = "ok"
        /\ \E f \in fs : f.name = CallFile /\ f.got = f.len /\ f.len = call.body

\* the third candidate was the first good one and the call returned True
C5_Witness ==
    /\ call.ret = "True"
    /\ Len(call.requested) = 3
    /\ dpc = "month"

\* C6: outside the write in progress, every file of data_dir holds its
\* complete body: an interrupted download leaves no partial file.
C6_NoPartialFile ==
    dpc # "write" => \A f \in fs : f.got = f.len

\* ---- claims about the report identity (common.py)
\* C11: a Month whose index is outside 0..11 gives no value: short_name,
\* numerical and the display name all fail for it.
C11_OutOfRangeFails ==
    (the_month \notin 0..11 /\ ret.op \in {"short_name", "numerical", "str"}) =>
        ret.exc # "none"

\* C12: among the reports (year, month index 0..11), has_no_data holds of
\* November 2015 alone; and download_new never calls download_if_possible for
\* it: no request is issued and no file is created for it.
C12_OnlyNov2015Skipped ==
    /\ \A y \in ReportYears, m \in all_months :
           has_no_data(y, m) <=> (y = 2015 /\ m = 10)
    /\ ~(call.year = 2015 /\ call.month = 10)
    /\ dpc \in {"request", "write"} => ~has_no_data(dyear, dmonth)
    /\ ~isfile(locate_excel_file(DataDir, 2015, 10))

\* the run has dealt with October 2015 and stands at December 2015
C12_Witness ==
    /\ dpc = "month"
    /\ call.year = 2015 /\ call.month = 9
    /\ dyear = 2015 /\ dmonth = 11

\* the month number 1..12 as Python formats it, without padding
NoPad ==
    << <<"1">>, <<"2">>, <<"3">>, <<"4">>, <<"5">>, <<"6">>, <<"7">>, <<"8">>,
       <<"9">>, <<"1", "0">>, <<"1", "1">>, <<"1", "2">> >>

\* the text of a year 2010..2019
YearText(y) ==
    <<"2", "0", "1">> \o << <<"0", "1", "2", "3", "4", "5", "6", "7", "8", "9">>[y - 2009] >>

\* C13: for a month index in 0..11, locate_excel_file returns
\* "{data_dir}/{year}-{n}.xlsx" with n the index plus one, unpadded, and no
\* other report of the directory has that file name.
C13_FileName ==
    (ret.op = "locate_excel_file" /\ the_month \in 0..11) =>
        /\ ret.value[1] = <<DataDir, "/">> \o YearText(the_year) \o <<"-">>
                             \o NoPad[the_month + 1] \o <<".xlsx">>
        /\ \A y \in ReportYears, m \in all_months :
               locate_excel_file(DataDir, y, m) = ret.value[1] =>
                   (y = the_year /\ m = the_month)

\* the file name of December 2015 was computed
C13_Witness ==
    /\ ret.op = "locate_excel_file"
    /\ the_month = 11
    /\ the_year = 2015

\* ---- more claims about the merge engine
\* C14: the column set of a Sheet contains every column label that is a key
\* of a stored row's data.
C14_ColumnsCoverRows ==
    \A i \in 1..Len(sheet.rows) : Keys(sheet.rows[i][2]) \subseteq sheet.columns

\* C15: get_or_create_sheet never fails: for a name that is not in the mapping
\* it creates the sheet instead of raising.
C15_CreatesOnFirstUse == engineExc # "KeyError"

\* the names of the fixture files that follow the {year}-{month} convention
ParsesAsReport(name) == name \in {"2021-1.xlsx", "2021-2.xlsx", "2021-3.xlsx"}

\* C16: add_source returns normally only for files whose name follows the
\* {year}-{month} convention, and for each of them every tab of the file has
\* a sheet holding a row.
C16_NameDecides ==
    \A i \in 1..Len(fed) :
        /\ ParsesAsReport(fed[i].name)
        /\ \A T \in TabNames :
               HasTab(fed[i], T) => HasKey(sheets, T) /\ Get(sheets, T).rows # <<>>

\* C17: in a condensation run add_source is called for the entries of the
\* listing in listing order, once each, and when the run ends every entry was
\* passed to add_source and write_to was called, after the last of them.
C17_EachFileOnceThenWrite ==
    /\ cpc # "idle" => fed = SubSeq(listing, 1, Len(fed))
    /\ (cpc # "idle" /\ written) => Len(fed) = Len(listing)
    /\ cpc \in {"done", "raised"} => written /\ Len(fed) = Len(listing)

\* ---- more claims about acquisition
\* C18: no request is issued for a report whose local file exists: the call
\* returns True with no request and the file is the one that was there before
\* the run, untouched; so no report is downloaded a second time.
C18_ExistingFileSkipsNetwork ==
    /\ dpc = "request" =>
           ~\E f \in fs : f.name = locate_excel_file(DataDir, dyear, dmonth)
    /\ (call.ret = "True" /\ call.requested = <<>>) =>
           \E f \in fs : f.name = CallFile /\ f \in PreFiles
    /\ \A f \in fs : f.by = "earlier" => f \in PreFiles

\* the file of January 2012 was there: True was returned with no request
C18_Witness ==
    /\ call.ret = "True"
    /\ call.requested = <<>>
    /\ call.year = 2012 /\ call.month = 0
    /\ dpc = "month"

\* C19: an error status other than 404 makes the call raise: the report has no
\* local file, no later candidate is asked, and download_new stops at that
\* report.
C19_ErrorStatusRaises ==
    call.answer \in {"error", "error_outside"} =>
        /\ dpc = "raised"
        /\ call.ret = "raised"
        /\ ~isfile(CallFile)
        /\ durl = Len(call.requested)
        /\ dyear = call.year /\ dmonth = call.month

\* the second candidate answered with an error status and the run has stopped
C19_Witness ==
    /\ call.answer = "error"
    /\ Len(call.requested) = 2
    /\ dpc = "raised"

\* ---- claims about the entry point
\* C20: main reaches the mode prompt only after it created data_dir itself,
\* so an operation it calls is given a directory that did not exist when the
\* program started and that held no file when the call began; when data_dir
\* existed already, main has raised and called no operation.
C20_OnlyFreshDirectory ==
    /\ mpc \in {"prompt", "download_new", "condense_existing", "finished", "op_raised"} =>
           the_dir \in exists /\ the_dir \notin existed
    /\ called.name # "none" =>
           /\ called.dir = the_dir
           /\ called.dir \notin existed
           /\ called.listing = {}
    /\ (mpc # "start" /\ the_dir \in existed) => (mpc = "raised" /\ called = NoOp)

\* main created "data" next to an older directory that holds a file, and
\* called condense_existing on it
C20_Witness ==
    /\ called.name = "condense_existing"
    /\ mpc = "finished"
    /\ the_dir = <<"d", "a", "t", "a">>
    /\ existed = {<<"o", "u", "t">>}
    /\ content[<<"o", "u", "t">>] # {}
    /\ prompts = 1

====
